---------------------------- MODULE Spec2Model ----------------------------
(***************************************************************************)
(* Harry: the similarity-matrix engine (src/src/hmatrix.c) and the         *)
(* delimiter table and tokenizer (src/src/str.c), as state machines.       *)
(*                                                                         *)
(* C strings are sequences of one-character strings; the bytes of the      *)
(* delimiter table and of tokenized strings are the integers 0..255.       *)
(***************************************************************************)
EXTENDS Integers, Sequences, FiniteSets, TLC

(***************************************************************************)
(* Bounds of the model.                                                    *)
(***************************************************************************)
\* Largest batch size n handed to hmatrix_init.
MaxN == 4
\* Longest range string handed to hmatrix_xrange / hmatrix_yrange in SpecRange.
MaxRangeLen == 4
\* Number of hmatrix_set calls made on an allocated matrix.
MaxSets == 1
\* Largest batch size of a matrix that is filled by hmatrix_compute.
MaxComputeN == 2

VARIABLES
    num,      \* n, the batch size passed to hmatrix_init; the strings of the
              \* batch are s[0] .. s[n-1] and are identified by their index
    phase,    \* position of the caller in the matrix life cycle
    m,        \* the hmatrix_t object
    open,     \* the range calls (xrange, yrange, split) still to be made:
              \* each at most once, and none after hmatrix_alloc
    last,     \* the last call: its name, arguments and the ranges before it
    nsets,    \* number of hmatrix_set calls so far
    lastSet,  \* arguments of the last hmatrix_set
    lastGet,  \* arguments and result of the last hmatrix_get
    measure,  \* the measure function passed to hmatrix_compute
    verbose,  \* extern int verbose
    log_line, \* extern int log_line
    pending,  \* iterations (i, j) of the collapsed loop not yet started
    th,       \* per worker thread: its position in the loop body and locals
    k,        \* the progress counter of hmatrix_compute
    lock,     \* the thread inside the omp critical section, 0 when none
    writers,  \* per index of values: the iterations that have written it
    ncalls,   \* number of calls of the measure function
    delim,    \* char delim[256], the global delimiter table
    charSigned, \* whether plain char is signed in this build
    oob,      \* str_delim_set has written outside delim
    lastDelim,  \* the last call on the delimiter table and its argument
    strIn,    \* the bytes of the string last passed to str_symbolize
    strOut    \* the string str_symbolize returned

mvars == <<num, phase, m, open, last, nsets, lastSet, lastGet>>
cvars == <<measure, verbose, log_line, pending, th, k, lock, writers, ncalls>>
svars == <<delim, charSigned, oob, lastDelim, strIn, strOut>>
vars == <<mvars, cvars, svars>>

(***************************************************************************)
(* C library helpers on strings                                            *)
(***************************************************************************)
DigitChars == <<"0", "1", "2", "3", "4", "5", "6", "7", "8", "9">>

IsDigit(c) == \E d \in 1..10 : DigitChars[d] = c

DigitVal(c) == (CHOOSE d \in 1..10 : DigitChars[d] = c) - 1

\* strchr(str, ':'): the position of the first ':' (1-based), 0 when there is none
Strchr(str) ==
    IF \E p \in 1..Len(str) : str[p] = ":"
    THEN CHOOSE p \in 1..Len(str) : str[p] = ":" /\ \A q \in 1..(p - 1) : str[q] # ":"
    ELSE 0

\* Number of leading characters of str, from position p on, that are digits
RECURSIVE DigitRun(_, _)
DigitRun(str, p) ==
    IF p <= Len(str) /\ IsDigit(str[p]) THEN 1 + DigitRun(str, p + 1) ELSE 0

\* Decimal value of the digits str[p .. p + cnt - 1]
RECURSIVE DigitsVal(_, _, _)
DigitsVal(str, p, cnt) ==
    IF cnt = 0 THEN 0 ELSE 10 * DigitsVal(str, p, cnt - 1) + DigitVal(str[p + cnt - 1])

\* Number of leading white-space characters of str from position p on
RECURSIVE SpaceRun(_, _)
SpaceRun(str, p) ==
    IF p <= Len(str) /\ str[p] = " " THEN 1 + SpaceRun(str, p + 1) ELSE 0

\* strtol(str, &end, 10): white space, an optional sign, decimal digits.
\* end is the number of characters consumed; with no digits nothing is
\* consumed (end = str) and the value is 0.
Strtol(str) ==
    LET sp == SpaceRun(str, 1)
        sg == IF sp + 1 <= Len(str) /\ str[sp + 1] \in {"-", "+"} THEN 1 ELSE 0
        nd  == DigitRun(str, sp + sg + 1)
        v  == DigitsVal(str, sp + sg + 1, nd)
    IN  IF nd = 0 THEN [val |-> 0, end |-> 0]
        ELSE [val |-> IF sg = 1 /\ str[sp + 1] = "-" THEN 0 - v ELSE v,
              end |-> sp + sg + nd]

\* sscanf(str, "%d:%d", &blocks, &index): the number of items assigned and
\* their values
Sscanf2(str) ==
    LET a    == Strtol(str)
        rest == SubSeq(str, a.end + 2, Len(str))
        b    == Strtol(rest)
    IN  IF a.end = 0 THEN [cnt |-> 0, blocks |-> 0, index |-> 0]
        ELSE IF a.end + 1 > Len(str) \/ str[a.end + 1] # ":" \/ b.end = 0
        THEN [cnt |-> 1, blocks |-> a.val, index |-> 0]
        ELSE [cnt |-> 2, blocks |-> a.val, index |-> b.val]

\* ceil(a / (float) b) for b # 0
CeilDiv(a, b) ==
    IF b > 0 THEN 0 - ((0 - a) \div b) ELSE 0 - (a \div (0 - b))

(***************************************************************************)
(* Ranges                                                                  *)
(***************************************************************************)
Range(i, n) == [i |-> i, n |-> n]

\* The indices a range_t covers: [i, n)
Cells(r) == r.i .. (r.n - 1)

parse_range(r, str, n) ==
    IF Len(str) = 0 THEN r
    ELSE LET ptr == Strchr(str) IN
    IF ptr = 0 THEN r
    ELSE LET left  == SubSeq(str, 1, ptr - 1)
             right == SubSeq(str, ptr + 1, Len(str))
             l1 == Strtol(left)
             l2 == Strtol(right)
             ri == IF Len(left) = 0 THEN 0
                   ELSE IF l1.end = Len(left) THEN l1.val
                   ELSE r.i
             rn == IF Len(right) = 0 THEN n
                   ELSE IF l2.end = Len(right) THEN l2.val
                   ELSE r.n
             rn2 == IF rn < 0 THEN n + rn ELSE rn
         IN  IF rn2 < 0 \/ ri < 0 \/ rn2 > n \/ ri > n - 1 \/ ri >= rn2
             THEN Range(0, n)
             ELSE Range(ri, rn2)


(***************************************************************************)
(* The matrix object                                                       *)
(***************************************************************************)
\* The state before hmatrix_init: no object exists
NoMatrix ==
    [num |-> 0, x |-> Range(0, 0), y |-> Range(0, 0), triangular |-> FALSE,
     size |-> 0, alloc |-> FALSE, values |-> <<>>, labels |-> FALSE,
     srcs |-> FALSE]

\* The values a user of the matrix stores with hmatrix_set
SetValues == {2}

NoCall == [x |-> -1, y |-> -1, v |-> 0]

NoLast == [op |-> "none", arg |-> <<>>, x |-> Range(0, 0), y |-> Range(0, 0)]

Called(op, arg) == [op |-> op, arg |-> arg, x |-> m.x, y |-> m.y]

\* hmatrix_init(s, n): malloc of the object, calloc of labels and srcs, each
\* of which may fail.  size is not assigned here; it is not read before
\* hmatrix_alloc assigns it.  When labels or srcs is NULL the object is
\* returned all the same (phase "init_err"); no operation below reads labels
\* or srcs, so the life of such an object is that of a complete one and is
\* not followed further.
Hmatrix_init ==
    /\ phase = "start"
    /\ \E okM, okL, okS \in BOOLEAN :
          IF ~okM
          THEN /\ phase' = "null"
               /\ m' = m
          ELSE /\ phase' = IF ~okS \/ ~okL THEN "init_err" ELSE "init"
               /\ m' = [num |-> num, x |-> Range(0, num), y |-> Range(0, num),
                        triangular |-> TRUE, size |-> 0, alloc |-> FALSE,
                        values |-> <<>>, labels |-> okL, srcs |-> okS]
    /\ last' = Called("init", <<>>)
    /\ UNCHANGED <<cvars, svars>>
    /\ UNCHANGED <<num, open, nsets, lastSet, lastGet>>

Hmatrix_xrange(Args) ==
    /\ phase = "init"
    /\ "xrange" \in open
    /\ \E str \in Args :
          /\ m' = [m EXCEPT !.x = parse_range(m.x, str, m.num)]
          /\ last' = Called("xrange", str)
    /\ open' = open \ {"xrange"}
    /\ UNCHANGED <<cvars, svars>>
    /\ UNCHANGED <<num, phase, nsets, lastSet, lastGet>>

Hmatrix_yrange(Args) ==
    /\ phase = "init"
    /\ "yrange" \in open
    /\ \E str \in Args :
          /\ m' = [m EXCEPT !.y = parse_range(m.y, str, m.num)]
          /\ last' = Called("yrange", str)
    /\ open' = open \ {"yrange"}
    /\ UNCHANGED <<cvars, svars>>
    /\ UNCHANGED <<num, phase, nsets, lastSet, lastGet>>

\* height = ceil((y.n - y.i) / (float) blocks).  With blocks = 0 the quotient
\* is infinite or NaN and its conversion to int is undefined: any value.
Heights(len, blocks) ==
    IF blocks = 0 THEN {-1, 0, 1} ELSE {CeilDiv(len, blocks)}

\* The three sanity checks of hmatrix_split
SplitChecks(y, blocks, index, height) ==
    /\ ~(blocks <= 0 \/ blocks > y.n - y.i)
    /\ ~(height <= 0 \/ height > y.n - y.i)
    /\ ~(index < 0 \/ index > blocks - 1)

\* hmatrix_split without the clamp of y.n to the end of the range
SplitRange_noclamp(y, index, height) ==
    LET yi == y.i + index * height
    IN  Range(yi, yi + height)

\* The range update of hmatrix_split
SplitRange(y, index, height) ==
    LET yi == y.i + index * height
    IN  Range(yi, IF y.n > yi + height THEN yi + height ELSE y.n)

\* hmatrix_split(m, str).  fatal() ends the run with the ranges as they were.
Hmatrix_split(Args) ==
    /\ phase = "init"
    /\ "split" \in open
    /\ \E str \in Args :
          /\ last' = Called("split", str)
          /\ IF Len(str) = 0
             THEN UNCHANGED <<m, phase>>
             ELSE LET sc == Sscanf2(str) IN
                  IF sc.cnt # 2
                  THEN /\ phase' = "fatal"
                       /\ m' = m
                  ELSE \E height \in Heights(m.y.n - m.y.i, sc.blocks) :
                         IF SplitChecks(m.y, sc.blocks, sc.index, height)
                         THEN /\ m' = [m EXCEPT !.y = SplitRange(m.y, sc.index, height)]
                              /\ phase' = phase
                         ELSE /\ phase' = "fatal"
                              /\ m' = m
    /\ open' = open \ {"split"}
    /\ UNCHANGED <<cvars, svars>>
    /\ UNCHANGED <<num, nsets, lastSet, lastGet>>

\* triangular and size as hmatrix_alloc computes them
AllocTriangular(x, y) == x.n = y.n /\ x.i = y.i

AllocSize(x, y) ==
    LET xl == x.n - x.i
        yl == y.n - y.i
    IN  IF AllocTriangular(x, y) THEN (xl * (xl - 1)) \div 2 + xl ELSE xl * yl

\* hmatrix_alloc(m).  calloc may fail; with a negative size its size_t
\* argument overflows the product and it always fails.
Hmatrix_alloc ==
    /\ phase = "init"
    /\ LET tri == AllocTriangular(m.x, m.y)
           sz  == AllocSize(m.x, m.y)
       IN  \E ok \in (IF sz < 0 THEN {FALSE} ELSE BOOLEAN) :
             IF ok
             THEN /\ m' = [m EXCEPT !.triangular = tri, !.size = sz, !.alloc = TRUE,
                                    !.values = [idx \in 0..(sz - 1) |-> 0]]
                  /\ phase' = "alloc"
             ELSE /\ m' = [m EXCEPT !.triangular = tri, !.size = sz]
                  /\ phase' = "allocfail"
    /\ last' = Called("alloc", <<>>)
    /\ open' = {}
    /\ UNCHANGED <<cvars, svars>>
    /\ UNCHANGED <<num, nsets, lastSet, lastGet>>

\* hmatrix_set with the base offset of row i taken as i*xl - i*(i+1)/2
SetIdx_rowbase(mm, x, y) ==
    IF mm.triangular
    THEN LET i == IF x - mm.x.i > y - mm.y.i THEN y - mm.y.i ELSE x - mm.x.i
             j == IF x - mm.x.i > y - mm.y.i THEN x - mm.x.i ELSE y - mm.y.i
         IN  (j - i) + i * (mm.x.n - mm.x.i) - (i * (i + 1)) \div 2
    ELSE (x - mm.x.i) + (y - mm.y.i) * (mm.x.n - mm.x.i)

\* The index hmatrix_set computes
SetIdx(mm, x, y) ==
    IF mm.triangular
    THEN LET i == IF x - mm.x.i > y - mm.y.i THEN y - mm.y.i ELSE x - mm.x.i
             j == IF x - mm.x.i > y - mm.y.i THEN x - mm.x.i ELSE y - mm.y.i
         IN  (j - i) + i * (mm.x.n - mm.x.i) - (i * (i - 1)) \div 2
    ELSE (x - mm.x.i) + (y - mm.y.i) * (mm.x.n - mm.x.i)

\* hmatrix_get without the exchange of the two offsets below the diagonal
GetIdx_noswap(mm, x, y) ==
    IF mm.triangular
    THEN LET i == x - mm.x.i
             j == y - mm.y.i
         IN  (j - i) + i * (mm.x.n - mm.y.i) - (i * (i - 1)) \div 2
    ELSE (x - mm.x.i) + (y - mm.y.i) * (mm.x.n - mm.x.i)

\* The index hmatrix_get computes
GetIdx(mm, x, y) ==
    IF mm.triangular
    THEN LET i == IF x - mm.x.i > y - mm.y.i THEN y - mm.y.i ELSE x - mm.x.i
             j == IF x - mm.x.i > y - mm.y.i THEN x - mm.x.i ELSE y - mm.y.i
         IN  (j - i) + i * (mm.x.n - mm.y.i) - (i * (i - 1)) \div 2
    ELSE (x - mm.x.i) + (y - mm.y.i) * (mm.x.n - mm.x.i)

\* m->values[idx] = f.  An index outside values corrupts memory (or trips
\* the assertion of a debug build).
StoreValue(mm, idx, f) ==
    [mm EXCEPT !.values = [mm.values EXCEPT ![idx] = f]]

\* hmatrix_set(m, x, y, f) called by a user of the matrix on a coordinate of
\* the active ranges
Hmatrix_set ==
    /\ phase = "alloc"
    /\ nsets < MaxSets
    /\ \E x \in Cells(m.x), y \in Cells(m.y), f \in SetValues :
          /\ IF SetIdx(m, x, y) \in DOMAIN m.values
             THEN /\ m' = StoreValue(m, SetIdx(m, x, y), f)
                  /\ phase' = phase
             ELSE /\ m' = m
                  /\ phase' = "corrupt"
          /\ lastSet' = [x |-> x, y |-> y, v |-> f]
    /\ nsets' = nsets + 1
    /\ lastGet' = NoCall
    /\ last' = Called("set", <<>>)
    /\ UNCHANGED <<cvars, svars>>
    /\ UNCHANGED <<num, open>>

\* return m->values[idx]
GetValue(mm, x, y) == mm.values[GetIdx(mm, x, y)]

\* hmatrix_get(m, x, y) called by a user of the matrix on a coordinate of
\* the active ranges (in a triangular matrix these include the mirror images)
Hmatrix_get ==
    /\ phase = "alloc"
    /\ \E x \in Cells(m.x), y \in Cells(m.y) :
          IF GetIdx(m, x, y) \in DOMAIN m.values
          THEN /\ lastGet' = [x |-> x, y |-> y, v |-> GetValue(m, x, y)]
               /\ phase' = phase
          ELSE /\ lastGet' = NoCall
               /\ phase' = "corrupt"
    /\ last' = Called("get", <<>>)
    /\ UNCHANGED <<cvars, svars>>
    /\ UNCHANGED <<num, m, open, nsets, lastSet>>

(***************************************************************************)
(* hmatrix_compute: the collapsed (i, j) loop run by a team of threads     *)
(***************************************************************************)
\* The worker threads of the parallel region
Threads == {1, 2}

\* A double is modelled as an integer count of half units in the last place
\* of a float: the even numbers are the doubles a float can hold.
\* float f = (double value): round to nearest, ties to the even significand
ToFloat(d) ==
    IF d % 2 = 0 THEN d
    ELSE IF (d + 1) % 4 = 0 THEN d + 1
    ELSE d - 1

\* Measure functions handed to hmatrix_compute, on the strings s[a], s[b]:
\* a symmetric distance, an order-dependent one, and a symmetric one whose
\* values no float holds exactly
MeasureNames == {"dist", "order", "sum"}

Measure(name, a, b) ==
    CASE name = "dist"  -> 2 * (IF a > b THEN a - b ELSE b - a)
      [] name = "order" -> IF a > b THEN 4 ELSE IF a < b THEN 2 ELSE 0
      [] name = "sum"   -> a + b + 1

Idle == [pc |-> "idle", xi |-> 0, yi |-> 0, f |-> 0, kread |-> 0]

\* The iteration space of the collapsed loops
Iterations(mm) ==
    (0..(mm.x.n - mm.x.i - 1)) \X (0..(mm.y.n - mm.y.i - 1))

\* "Skip symmetric values": the iteration ends at continue
Skipped_diag(mm, xi, yi) == mm.triangular /\ yi >= xi

Skipped_never(mm, xi, yi) == FALSE

Skipped(mm, xi, yi) == mm.triangular /\ yi > xi

\* Entry of hmatrix_compute on an allocated matrix: k = 0 and the parallel
\* region starts
Compute_begin ==
    /\ phase = "alloc"
    /\ phase' = "compute"
    /\ pending' = Iterations(m)
    /\ th' = [t \in Threads |-> Idle]
    /\ k' = 0
    /\ lock' = 0
    /\ writers' = [idx \in DOMAIN m.values |-> {}]
    /\ ncalls' = 0
    /\ last' = Called("compute", <<>>)
    /\ UNCHANGED <<num, m, open, nsets, lastSet, lastGet, measure, verbose, log_line>>
    /\ UNCHANGED svars

\* A thread takes an iteration of the collapsed loop: xi, yi, the skip test
\* and the call of the measure
Iterate(t) ==
    /\ phase = "compute"
    /\ th[t].pc = "idle"
    /\ \E it \in pending :
          LET xi == it[1] + m.x.i
              yi == it[2] + m.y.i
          IN  /\ pending' = pending \ {it}
              /\ IF Skipped(m, xi, yi)
                 THEN UNCHANGED <<th, ncalls>>
                 ELSE /\ th' = [th EXCEPT ![t] =
                                  [pc |-> "set", xi |-> xi, yi |-> yi,
                                   f |-> ToFloat(Measure(measure, xi, yi)),
                                   kread |-> 0]]
                      /\ ncalls' = ncalls + 1
    /\ UNCHANGED <<mvars, measure, verbose, log_line, k, lock, writers>>
    /\ UNCHANGED svars

\* hmatrix_set(m, xi, yi, f) in the loop body, then the test of verbose and
\* log_line
Write(t) ==
    /\ phase = "compute"
    /\ th[t].pc = "set"
    /\ LET idx == SetIdx(m, th[t].xi, th[t].yi)
       IN  IF idx \in DOMAIN m.values
           THEN /\ m' = StoreValue(m, idx, th[t].f)
                /\ writers' = [writers EXCEPT ![idx] = @ \cup {<<th[t].xi, th[t].yi>>}]
                /\ phase' = phase
                /\ th' = [th EXCEPT ![t] =
                            IF verbose \/ log_line THEN [@ EXCEPT !.pc = "crit"]
                            ELSE Idle]
           ELSE /\ phase' = "corrupt"
                /\ UNCHANGED <<m, writers, th>>
    /\ UNCHANGED <<num, open, last, nsets, lastSet, lastGet>>
    /\ UNCHANGED <<measure, verbose, log_line, pending, k, lock, ncalls>>
    /\ UNCHANGED svars

\* omp critical admits a thread when no thread is inside
CriticalFree_always(t) == TRUE

CriticalFree(t) == lock = 0

\* Entry of the omp critical section
Enter(t) ==
    /\ phase = "compute"
    /\ th[t].pc = "crit"
    /\ CriticalFree(t)
    /\ lock' = t
    /\ th' = [th EXCEPT ![t].pc = "report"]
    /\ UNCHANGED <<mvars, measure, verbose, log_line, pending, k, writers, ncalls>>
    /\ UNCHANGED svars

\* Inside the critical section: the progress bar and the log line read k,
\* and k++ reads it
Report(t) ==
    /\ phase = "compute"
    /\ th[t].pc = "report"
    /\ th' = [th EXCEPT ![t].pc = "inc", ![t].kread = k]
    /\ UNCHANGED <<mvars, measure, verbose, log_line, pending, k, lock, writers, ncalls>>
    /\ UNCHANGED svars

\* k++ stores, and the critical section ends
Leave(t) ==
    /\ phase = "compute"
    /\ th[t].pc = "inc"
    /\ k' = th[t].kread + 1
    /\ lock' = 0
    /\ th' = [th EXCEPT ![t] = Idle]
    /\ UNCHANGED <<mvars, measure, verbose, log_line, pending, writers, ncalls>>
    /\ UNCHANGED svars

\* The end of the parallel region (its implicit barrier) and the return of
\* hmatrix_compute
Compute_end ==
    /\ phase = "compute"
    /\ pending = {}
    /\ \A t \in Threads : th[t].pc = "idle"
    /\ phase' = "computed"
    /\ UNCHANGED <<num, m, open, last, nsets, lastSet, lastGet, cvars>>
    /\ UNCHANGED svars


(***************************************************************************)
(* The delimiter table and the tokenizer (str.c)                           *)
(***************************************************************************)
Bytes == 0..255

\* The sentinel of an uninitialised table.  It is defined in str.h; any value
\* other than 0 and 1 behaves alike.
DELIM_NOT_INIT == 42

\* '%'
Percent == 37

\* char delim[256] = { DELIM_NOT_INIT }
DelimInitial == [b \in Bytes |-> IF b = 0 THEN DELIM_NOT_INIT ELSE 0]

\* memset(delim, 0, 256)
DelimZero == [b \in Bytes |-> 0]

\* str_has_delim()
str_has_delim == delim[0] # DELIM_NOT_INIT

\* The value of a plain char that holds byte b
CharVal(b) == IF charSigned /\ b >= 128 THEN b - 256 ELSE b

IsHex(c) == c \in (48..57) \cup (97..102) \cup (65..70)

HexVal(c) ==
    IF c \in 48..57 THEN c - 48
    ELSE IF c \in 97..102 THEN c - 87
    ELSE c - 55

\* An index outside the table, standing for all of them
OutOfTable == 256

\* (unsigned int) s[i] for the byte b held in a plain char: a negative char
\* converts to 2^32 + s[i], far outside the table
UnsignedIndex(b) == IF CharVal(b) < 0 THEN OutOfTable ELSE b

\* The values an unsigned int that was never assigned may hold
Indeterminate == {0, 1, 255, OutOfTable}

\* sscanf(buf, "%x", &j) on buf = "0x" c1 c2: the values j may hold after
\* it.  jold is j before the call, -1 when it was never assigned.  With no
\* hex digit after "0x" the conversion fails and j keeps its value, or the
\* library takes the lone "0" and assigns 0.
SscanfHex(c1, c2, jold) ==
    IF IsHex(c1) /\ IsHex(c2) THEN {16 * HexVal(c1) + HexVal(c2)}
    ELSE IF IsHex(c1) THEN {HexVal(c1)}
    ELSE {0} \cup (IF jold = -1 THEN Indeterminate ELSE {jold})

\* "Skip truncated sequence": the test at a '%' at position p (1-based)
Truncated(s, p) == Len(s) - (p - 1) < 2

\* delim[idx] = 1; a store outside the table hits other memory
Flag(st, idx) ==
    IF idx \in Bytes
    THEN [st EXCEPT !.tab = [st.tab EXCEPT ![idx] = 1]]
    ELSE [st EXCEPT !.oob = TRUE]

\* The loop of str_delim_set from position p on: the set of outcomes, each
\* the table and whether a store left it.  st.j is the local j.
RECURSIVE DecodeFrom(_, _, _)
DecodeFrom(s, p, st) ==
    IF p > Len(s) THEN {[tab |-> st.tab, oob |-> st.oob]}
    ELSE IF s[p] # Percent
    THEN DecodeFrom(s, p + 1, Flag(st, UnsignedIndex(s[p])))
    ELSE IF Truncated(s, p) THEN {[tab |-> st.tab, oob |-> st.oob]}
    ELSE LET c1 == s[p + 1]
             c2 == IF p + 2 <= Len(s) THEN s[p + 2] ELSE 0
         IN  UNION {DecodeFrom(s, p + 3, Flag([st EXCEPT !.j = jnew], jnew)) :
                       jnew \in SscanfHex(c1, c2, st.j)}

NoDelimCall == [op |-> "none", spec |-> <<>>]

NoStr == [type |-> "none", len |-> 0, sym |-> <<>>, overflow |-> FALSE]

\* str_delim_reset(), called while no string is being tokenized
Str_delim_reset ==
    /\ strOut = NoStr
    /\ delim' = [delim EXCEPT ![0] = DELIM_NOT_INIT]
    /\ lastDelim' = [op |-> "reset", spec |-> <<>>]
    /\ strIn' = <<>>
    /\ strOut' = NoStr
    /\ UNCHANGED <<mvars, cvars, charSigned, oob>>

\* str_delim_set(s), called while no string is being tokenized
Str_delim_set(Specs) ==
    /\ strOut = NoStr
    /\ \E s \in Specs :
          /\ lastDelim' = [op |-> "set", spec |-> s]
          /\ IF Len(s) = 0
             THEN /\ delim' = [delim EXCEPT ![0] = DELIM_NOT_INIT]
                  /\ oob' = oob
             ELSE \E r \in DecodeFrom(s, 1, [tab |-> DelimZero, oob |-> FALSE, j |-> -1]) :
                     /\ delim' = r.tab
                     /\ oob' = (oob \/ r.oob)
    /\ strIn' = <<>>
    /\ strOut' = NoStr
    /\ UNCHANGED <<mvars, cvars, charSigned>>

\* hash_str(s, len): the hash of a byte buffer, a function of its bytes
hash_str(bytes) == [hash |-> bytes]

\* "Find first delimiter symbol": 256 when no entry is set
FirstDelim ==
    IF \E b \in Bytes : delim[b] # 0
    THEN CHOOSE b \in Bytes : delim[b] # 0 /\ \A c \in 0..(b - 1) : delim[c] = 0
    ELSE 256

\* "Remove redundant delimiters": the bytes x.str.c[0 .. j-1] after the loop
\* has read c[p .. Len(c)] with out already written
RECURSIVE Compact(_, _, _, _)
Compact(c, p, out, dlm) ==
    IF p > Len(c) THEN out
    ELSE IF delim[c[p]] # 0
    THEN IF Len(out) = 0 \/ delim[out[Len(out)]] # 0
         THEN Compact(c, p + 1, out, dlm)
         ELSE Compact(c, p + 1, Append(out, dlm % 256), dlm)
    ELSE Compact(c, p + 1, Append(out, c[p]), dlm)

\* "Extract words": the loop over i = 0 .. j on the compacted bytes buf
RECURSIVE Extract(_, _, _, _, _)
Extract(buf, i, wstart, dlm, sym) ==
    IF i > Len(buf) THEN sym
    ELSE IF (i = Len(buf) \/ CharVal(buf[i + 1]) = dlm) /\ i - wstart > 0
    THEN Extract(buf, i + 1, i + 1, dlm,
                 Append(sym, hash_str(SubSeq(buf, wstart + 1, i))))
    ELSE Extract(buf, i + 1, wstart, dlm, sym)

\* str_symbolize(x) on the bytes c: the string returned.  overflow tells
\* that more symbols were stored than the len/2 + 1 allocated.
Symbolized(c) ==
    LET dlm == FirstDelim
        buf == Compact(c, 1, <<>>, dlm)
        sym == Extract(buf, 0, 0, dlm, <<>>)
    IN  [type |-> "sym", len |-> Len(sym), sym |-> sym,
         overflow |-> Len(sym) > Len(c) \div 2 + 1]

\* str_symbolize(x); when malloc fails x is returned as it came
Str_symbolize(Inputs) ==
    /\ strOut = NoStr
    /\ \E c \in Inputs, ok \in BOOLEAN :
          /\ strIn' = c
          /\ strOut' = IF ok THEN Symbolized(c)
                       ELSE [type |-> "char", len |-> Len(c), sym |-> <<>>,
                             overflow |-> FALSE]
    /\ UNCHANGED <<mvars, cvars, delim, charSigned, oob, lastDelim>>

\* str_free(x): the caller is done with the string it had tokenized
Str_free ==
    /\ strOut # NoStr
    /\ strIn' = <<>>
    /\ strOut' = NoStr
    /\ UNCHANGED <<mvars, cvars, delim, charSigned, oob, lastDelim>>

\* No call on the delimiter table or the tokenizer has been made
NoStrCalls ==
    /\ delim = DelimInitial
    /\ oob = FALSE
    /\ lastDelim = NoDelimCall
    /\ strIn = <<>>
    /\ strOut = NoStr

(***************************************************************************)
(* Arguments of the calls                                                  *)
(***************************************************************************)
NumStr(v) ==
    IF v < 0 THEN <<"-", DigitChars[1 - v]>> ELSE <<DigitChars[v + 1]>>

\* Range strings a caller passes: "", every "a:b" with either side possibly
\* empty and b possibly negative, and strings that do not parse
RangeArgs ==
    LET lefts  == {<<>>} \cup {NumStr(a) : a \in 0..num}
        rights == {<<>>} \cup {NumStr(b) : b \in (0 - num)..(num + 1)}
    IN  {<<>>, <<"z">>, <<"z", ":", "2">>, <<"1", ":", "2", "z">>}
        \cup {l \o <<":">> \o r : l \in lefts, r \in rights}

\* Split strings a caller passes
SplitArgs ==
    {<<>>, <<"z">>, <<"2", ":">>}
    \cup {NumStr(b) \o <<":">> \o NumStr(i) : b \in 0..(num + 1), i \in (0 - 1)..num}

(***************************************************************************)
(* The life cycle of a matrix: init, ranges and split, alloc, set and get  *)
(***************************************************************************)
\* hmatrix_compute has not been entered
NoCompute ==
    /\ pending = {}
    /\ th = [t \in Threads |-> Idle]
    /\ k = 0
    /\ lock = 0
    /\ writers = <<>>
    /\ ncalls = 0

\* A life cycle without hmatrix_compute
NoMeasure ==
    /\ measure = "dist"
    /\ verbose = FALSE
    /\ log_line = FALSE

Init ==
    /\ num \in 0..MaxN
    /\ phase = "start"
    /\ m = NoMatrix
    /\ open = {"xrange", "yrange", "split"}
    /\ last = NoLast
    /\ nsets = 0
    /\ lastSet = NoCall
    /\ lastGet = NoCall
    /\ NoCompute
    /\ NoMeasure
    /\ NoStrCalls
    /\ charSigned = TRUE

Next ==
    \/ Hmatrix_init
    \/ Hmatrix_xrange(RangeArgs)
    \/ Hmatrix_yrange(RangeArgs)
    \/ Hmatrix_split(SplitArgs)
    \/ Hmatrix_alloc
    \/ Hmatrix_set
    \/ Hmatrix_get

Spec == Init /\ [][Next]_vars


(***************************************************************************)
(* Properties of the matrix life cycle                                     *)
(***************************************************************************)
InRange(r) == 0 <= r.i /\ r.i < r.n /\ r.n <= num

\* C1: in an allocated triangular matrix, hmatrix_set(m, x, y, v) followed by
\* hmatrix_get(m, y, x) or hmatrix_get(m, x, y) returns v, and get and set
\* compute the same index for every coordinate of the active range and its
\* mirror image; no call leaves the values array.
SymmetryRoundTrip ==
    /\ phase # "corrupt"
    /\ (phase = "alloc" /\ m.triangular) =>
          /\ \A x \in Cells(m.x), y \in Cells(m.y) :
                /\ GetIdx(m, y, x) = SetIdx(m, x, y)
                /\ GetIdx(m, x, y) = SetIdx(m, x, y)
          /\ (/\ lastSet # NoCall
              /\ lastGet # NoCall
              /\ \/ lastGet.x = lastSet.y /\ lastGet.y = lastSet.x
                 \/ lastGet.x = lastSet.x /\ lastGet.y = lastSet.y)
             => lastGet.v = lastSet.v

\* A value set below the diagonal of a triangular matrix whose range does
\* not start at 0 has been read back through the mirrored coordinate
SymmetryRoundTripWitness ==
    /\ phase = "alloc"
    /\ m.triangular
    /\ m.x.i > 0
    /\ lastSet # NoCall
    /\ lastSet.x > lastSet.y
    /\ lastGet.x = lastSet.y
    /\ lastGet.y = lastSet.x
    /\ lastGet.v = lastSet.v

\* C2: in every allocated matrix over a batch of N >= 1 strings, the index of
\* hmatrix_set maps the coordinates of the active rectangle into [0, size),
\* one-to-one when rectangular, one-to-one up to mirror images when
\* triangular, and onto [0, size); size is xl*(xl+1)/2 when triangular and
\* xl*yl otherwise.
PackingBijection ==
    (phase = "alloc" /\ num >= 1) =>
       LET xl == m.x.n - m.x.i
           yl == m.y.n - m.y.i
           C  == Cells(m.x) \X Cells(m.y)
       IN  /\ m.size = IF m.triangular THEN (xl * (xl + 1)) \div 2 ELSE xl * yl
           /\ \A c \in C : SetIdx(m, c[1], c[2]) \in 0..(m.size - 1)
           /\ \A c, d \in C :
                 SetIdx(m, c[1], c[2]) = SetIdx(m, d[1], d[2]) =>
                    \/ c = d
                    \/ m.triangular /\ c[1] = d[2] /\ c[2] = d[1]
           /\ \A q \in 0..(m.size - 1) : \E c \in C : SetIdx(m, c[1], c[2]) = q

\* A triangular matrix of at least six cells over a range that does not
\* start at 0 has been allocated and written to
PackingBijectionWitness ==
    /\ phase = "alloc"
    /\ m.triangular
    /\ m.x.i > 0
    /\ m.size >= 6
    /\ lastSet # NoCall
    /\ m.values[SetIdx(m, lastSet.x, lastSet.y)] = lastSet.v

\* C4: for the y-range of a matrix and any block count 1 <= blocks <= y.n -
\* y.i, the strips hmatrix_split makes for index 0 .. blocks-1 pass its
\* checks, are pairwise disjoint, cover exactly [y.i, y.n), and strip k
\* starts at y.i + k*ceil((y.n - y.i)/blocks).
SplitDisjointCover ==
    (phase = "init") =>
       \A blocks \in 1..(m.y.n - m.y.i) :
          \A height \in Heights(m.y.n - m.y.i, blocks) :
             LET strip(b) == SplitRange(m.y, b, height)
             IN  /\ \A b \in 0..(blocks - 1) :
                       /\ SplitChecks(m.y, blocks, b, height)
                       /\ strip(b).i = m.y.i + b * CeilDiv(m.y.n - m.y.i, blocks)
                 /\ \A b, c \in 0..(blocks - 1) :
                       b # c => Cells(strip(b)) \cap Cells(strip(c)) = {}
                 /\ UNION {Cells(strip(b)) : b \in 0..(blocks - 1)} = Cells(m.y)

\* hmatrix_split has cut a strip with index > 0 out of a y-range that does
\* not start at 0
SplitDisjointCoverWitness ==
    /\ phase = "init"
    /\ last.op = "split"
    /\ last.y.i > 0
    /\ m.y.i > last.y.i
    /\ m.y.n = last.y.n
    /\ InRange(m.y)

\* C9: a matrix object over a batch of n >= 1 strings reaches the caller
\* only with labels and srcs allocated; when the allocation of values fails
\* the caller gets NULL.
NoHalfBuiltMatrix ==
    /\ (num >= 1 /\ phase \notin {"start", "null"}) => (m.labels /\ m.srcs)
    /\ phase = "allocfail" => ~m.alloc

\* C10: a split that passes the three checks leaves a non-empty y-range
\* inside the range it was given, for which hmatrix_alloc computes a
\* positive size; a split that fails a check leaves x and y unchanged.
SplitKeepsRange ==
    (last.op = "split" /\ Len(last.arg) > 0) =>
       IF phase = "fatal"
       THEN m.x = last.x /\ m.y = last.y
       ELSE /\ InRange(m.y)
            /\ last.y.i <= m.y.i
            /\ m.y.n <= last.y.n
            /\ AllocSize(m.x, m.y) > 0


(***************************************************************************)
(* Range parsing on every short string                                     *)
(***************************************************************************)
RangeAlphabet == {DigitChars[d + 1] : d \in 0..MaxN} \cup {":", "-", "z"}

\* Every string over RangeAlphabet of at most MaxRangeLen characters
AllRangeStrs == UNION {[1..len -> RangeAlphabet] : len \in 0..MaxRangeLen}

\* A caller that makes one range call on the matrix it initialised
InitRange ==
    /\ num \in 0..MaxN
    /\ phase = "start"
    /\ m = NoMatrix
    /\ open \in {{"xrange"}, {"yrange"}}
    /\ last = NoLast
    /\ nsets = 0
    /\ lastSet = NoCall
    /\ lastGet = NoCall
    /\ NoCompute
    /\ NoMeasure
    /\ NoStrCalls
    /\ charSigned = TRUE

NextRange ==
    \/ Hmatrix_init
    \/ Hmatrix_xrange(AllRangeStrs)
    \/ Hmatrix_yrange(AllRangeStrs)

SpecRange == InitRange /\ [][NextRange]_vars

\* A pure decimal integer: an optional '-' and at least one digit
IsPureInt(t) ==
    LET neg == Len(t) >= 1 /\ t[1] = "-"
        d0  == IF neg THEN 2 ELSE 1
    IN  /\ Len(t) >= d0
        /\ \A p \in d0..Len(t) : IsDigit(t[p])

PureIntVal(t) ==
    IF t[1] = "-" THEN 0 - DigitsVal(t, 2, Len(t) - 1) ELSE DigitsVal(t, 1, Len(t))

\* The range the grammar int? ':' int? assigns to a string, with every
\* rejected string reverting to the full range (0, n)
GrammarRange(s, n) ==
    IF Len(s) = 0 \/ Strchr(s) = 0 THEN Range(0, n)
    ELSE LET left  == SubSeq(s, 1, Strchr(s) - 1)
             right == SubSeq(s, Strchr(s) + 1, Len(s))
         IN  IF \/ Len(left) > 0 /\ ~IsPureInt(left)
                \/ Len(right) > 0 /\ ~IsPureInt(right)
             THEN Range(0, n)
             ELSE LET a  == IF Len(left) = 0 THEN 0 ELSE PureIntVal(left)
                      b  == IF Len(right) = 0 THEN n ELSE PureIntVal(right)
                      b2 == IF b < 0 THEN n + b ELSE b
                  IN  IF a < 0 \/ b2 < 0 \/ b2 > n \/ a >= b2
                      THEN Range(0, n)
                      ELSE Range(a, b2)

\* C5: hmatrix_xrange / hmatrix_yrange, called on the fresh full range of a
\* matrix of N >= 1 strings, leaves the range the grammar gives ("" and ":"
\* the full range, "a:" (a, N), ":b" (0, b), negative b (a, N + b)), leaves
\* the full range (0, N) on every rejected input (no ':', a side that is not
\* a pure decimal integer, a result with i < 0, n > N or i >= n), and always
\* leaves 0 <= i < n <= N.
RangeParsing ==
    /\ (last.op = "xrange" /\ num >= 1 /\ last.x = Range(0, num)) =>
          /\ m.x = GrammarRange(last.arg, num)
          /\ InRange(m.x)
    /\ (last.op = "yrange" /\ num >= 1 /\ last.y = Range(0, num)) =>
          /\ m.y = GrammarRange(last.arg, num)
          /\ InRange(m.y)


(***************************************************************************)
(* The life cycle of a matrix filled by hmatrix_compute                    *)
(***************************************************************************)
InitCompute ==
    /\ num \in 0..MaxComputeN
    /\ phase = "start"
    /\ m = NoMatrix
    /\ open = {"xrange", "yrange", "split"}
    /\ last = NoLast
    /\ nsets = 0
    /\ lastSet = NoCall
    /\ lastGet = NoCall
    /\ NoCompute
    /\ measure \in MeasureNames
    /\ verbose \in BOOLEAN
    /\ log_line \in BOOLEAN
    /\ NoStrCalls
    /\ charSigned = TRUE

NextCompute ==
    \/ Hmatrix_init
    \/ Hmatrix_xrange(RangeArgs)
    \/ Hmatrix_yrange(RangeArgs)
    \/ Hmatrix_split(SplitArgs)
    \/ Hmatrix_alloc
    \/ Compute_begin
    \/ \E t \in Threads : Iterate(t)
    \/ \E t \in Threads : Write(t)
    \/ \E t \in Threads : Enter(t)
    \/ \E t \in Threads : Report(t)
    \/ \E t \in Threads : Leave(t)
    \/ Compute_end

SpecCompute == InitCompute /\ [][NextCompute]_vars

(***************************************************************************)
(* Properties of hmatrix_compute                                           *)
(***************************************************************************)
\* C3 as claimed: after hmatrix_compute every pair (x, y) of the active
\* ranges reads back as measure(s[x], s[y]), in rectangular and triangular
\* matrices alike and for any measure.
ComputeComplete ==
    (phase = "computed") =>
       \A x \in Cells(m.x), y \in Cells(m.y) :
          GetValue(m, x, y) = Measure(measure, x, y)

\* C3 as amended: after hmatrix_compute every pair (x, y) of the active
\* ranges reads back as the float nearest to measure(s[x], s[y]) in a
\* rectangular matrix and for the triangular pairs with y <= x, and as the
\* float nearest to measure(s[y], s[x]) for the triangular pairs with y > x.
ComputeCompleteMirrored ==
    (phase = "computed") =>
       \A x \in Cells(m.x), y \in Cells(m.y) :
          GetValue(m, x, y) =
             IF m.triangular /\ y > x
             THEN ToFloat(Measure(measure, y, x))
             ELSE ToFloat(Measure(measure, x, y))

\* A triangular matrix has been computed under the order-dependent measure
\* and a pair above the diagonal reads back the value of its mirror image
ComputeCompleteWitness ==
    /\ phase = "computed"
    /\ m.triangular
    /\ measure = "order"
    /\ \E x \in Cells(m.x), y \in Cells(m.y) :
          /\ y > x
          /\ GetValue(m, x, y) = Measure(measure, y, x)
          /\ GetValue(m, x, y) # Measure(measure, x, y)

\* C6: under every interleaving of the threads no index of values is written
\* by two iterations, no two threads are about to write the same index, and
\* when the loop has finished every index in [0, size) has been written by
\* exactly one iteration and the measure has been called size times.
DisjointWrites ==
    /\ phase # "corrupt"
    /\ phase \in {"compute", "computed"} =>
          /\ DOMAIN writers = 0..(m.size - 1)
          /\ \A idx \in DOMAIN writers : Cardinality(writers[idx]) <= 1
    /\ phase = "compute" =>
          \A t, u \in Threads :
             (t # u /\ th[t].pc = "set" /\ th[u].pc = "set") =>
                SetIdx(m, th[t].xi, th[t].yi) # SetIdx(m, th[u].xi, th[u].yi)
    /\ phase = "computed" =>
          /\ \A idx \in 0..(m.size - 1) : Cardinality(writers[idx]) = 1
          /\ ncalls = m.size

\* Two threads are about to write a triangular matrix at once, with no lock
\* held, after another iteration has written
DisjointWritesWitness ==
    /\ phase = "compute"
    /\ m.triangular
    /\ lock = 0
    /\ \A t \in Threads : th[t].pc = "set"
    /\ \E idx \in DOMAIN writers : writers[idx] # {}

\* The threads at the reads of k and at k++
InCritical == {t \in Threads : th[t].pc \in {"report", "inc"}}

\* The threads that have called the measure for a pair and have not yet
\* left the loop body
InBody == {t \in Threads : th[t].pc \in {"set", "crit", "report", "inc"}}

\* The pairs of the loop that were taken and not skipped
TakenPairs ==
    {it \in Iterations(m) \ pending : ~Skipped(m, it[1] + m.x.i, it[2] + m.y.i)}

\* What holds in every state of a verbose or log-enabled hmatrix_compute
ProgressCounterState ==
    (phase \in {"compute", "computed"} /\ (verbose \/ log_line)) =>
       /\ \A t \in InCritical : lock = t
       /\ \A t \in Threads :
             th[t].pc \in {"crit", "report", "inc"} =>
                LET idx == SetIdx(m, th[t].xi, th[t].yi)
                IN  /\ <<th[t].xi, th[t].yi>> \in writers[idx]
                    /\ m.values[idx] = th[t].f
       /\ k + Cardinality(InBody) = Cardinality(TakenPairs)
       /\ \A t \in Threads : th[t].pc = "inc" => th[t].kread = k
       /\ phase = "computed" => k = m.size

\* What holds of every step: k never decreases and gains at most one, it
\* changes only by the thread inside the critical section, and no thread
\* inside the critical section calls the measure
ProgressCounterStep ==
    /\ k' >= k
    /\ k' <= k + 1
    /\ k' # k => \E t \in Threads : lock = t /\ th[t].pc = "inc" /\ lock' = 0
    /\ ncalls' # ncalls =>
          \E t \in Threads : th[t].pc = "idle" /\ th'[t].pc = "set" /\ lock # t

\* C11: on a verbose or log-enabled run of hmatrix_compute, under every
\* interleaving of the threads, k is read and incremented only inside the
\* critical section, which one thread at a time enters and only after its
\* own measure call and hmatrix_set are done, and in which no measure is
\* called; k never decreases, counts exactly the pairs that were computed
\* and have left the critical section (no update is lost, a skipped
\* triangular pair adds nothing) and equals size when the loop has finished.
ProgressCounter == []ProgressCounterState /\ [][ProgressCounterStep]_vars

\* Both threads have computed a pair of a triangular matrix after an earlier
\* pair was counted and a pair with yi > xi was skipped: one is at k++, the
\* other waits at the critical section
ProgressCounterWitness ==
    /\ phase = "compute"
    /\ verbose \/ log_line
    /\ m.triangular
    /\ k >= 1
    /\ \E it \in Iterations(m) \ pending : Skipped(m, it[1] + m.x.i, it[2] + m.y.i)
    /\ \E t, u \in Threads : th[t].pc = "inc" /\ th[u].pc = "crit"

(***************************************************************************)
(* The delimiter table and the tokenizer: calls in any order               *)
(***************************************************************************)
\* Longest delimiter specification
MaxSpecLen == 3
\* Longest string tokenized
MaxStrLen == 3

\* ' ', '%', '0', '9', 'e' and the byte 0xe9
SpecAlphabet == {32, Percent, 48, 57, 101, 233}

DelimSpecs == UNION {[1..len -> SpecAlphabet] : len \in 0..MaxSpecLen}

\* tab, ' ', 'a' and the byte 0xe9
StrAlphabet == {9, 32, 97, 233}

StrInputs == UNION {[1..len -> StrAlphabet] : len \in 0..MaxStrLen}

InitStr ==
    /\ num = 0
    /\ phase = "start"
    /\ m = NoMatrix
    /\ open = {"xrange", "yrange", "split"}
    /\ last = NoLast
    /\ nsets = 0
    /\ lastSet = NoCall
    /\ lastGet = NoCall
    /\ NoCompute
    /\ NoMeasure
    /\ NoStrCalls
    /\ charSigned \in BOOLEAN

NextStr ==
    \/ Str_delim_set(DelimSpecs)
    \/ Str_delim_reset
    \/ Str_symbolize(StrInputs)
    \/ Str_free

SpecStr == InitStr /\ [][NextStr]_vars

(***************************************************************************)
(* Properties of the delimiter table and the tokenizer                     *)
(***************************************************************************)
\* The entries of the table that are flagged
Flagged == {b \in Bytes : delim[b] # 0}

\* A delimiter specification whose every '%' from position p on is either
\* followed by two hex digits or stands within the last two characters
RECURSIVE WellFormedFrom(_, _)
WellFormedFrom(s, p) ==
    IF p > Len(s) THEN TRUE
    ELSE IF s[p] # Percent THEN WellFormedFrom(s, p + 1)
    ELSE IF p + 2 > Len(s) THEN TRUE
    ELSE IsHex(s[p + 1]) /\ IsHex(s[p + 2]) /\ WellFormedFrom(s, p + 3)

\* The bytes a well-formed specification names from position p on: those
\* that stand literally outside %-sequences and those written %HH; a '%'
\* with fewer than two characters after it names none
RECURSIVE NamedFrom(_, _)
NamedFrom(s, p) ==
    IF p > Len(s) THEN {}
    ELSE IF s[p] # Percent THEN {s[p]} \cup NamedFrom(s, p + 1)
    ELSE IF p + 2 > Len(s) THEN {}
    ELSE {16 * HexVal(s[p + 1]) + HexVal(s[p + 2])} \cup NamedFrom(s, p + 3)

\* C8: after str_delim_set(spec) with a non-empty spec str_has_delim() is
\* true and the flagged entries are exactly the bytes that stand literally
\* in spec plus those written %HH, a '%' with fewer than two characters
\* after it flagging none; no store leaves the 256-entry table; after
\* str_delim_set("") str_has_delim() is false as after str_delim_reset();
\* and str_has_delim() is true iff the last call was a set with a non-empty
\* spec.
DelimDecoding ==
    /\ ~oob
    /\ str_has_delim <=> (lastDelim.op = "set" /\ Len(lastDelim.spec) > 0)
    /\ (lastDelim.op = "set" /\ Len(lastDelim.spec) > 0
           /\ WellFormedFrom(lastDelim.spec, 1))
          => Flagged = NamedFrom(lastDelim.spec, 1)

\* The maximal runs of non-delimiter bytes of c from position p on, cur
\* being the run that is open at p
RECURSIVE MaximalRuns(_, _, _)
MaximalRuns(c, p, cur) ==
    LET closed == IF cur = <<>> THEN <<>> ELSE <<cur>>
    IN  IF p > Len(c) THEN closed
        ELSE IF delim[c[p]] # 0 THEN closed \o MaximalRuns(c, p + 1, <<>>)
        ELSE MaximalRuns(c, p + 1, Append(cur, c[p]))

\* A string has been tokenized under a table that a str_delim_set with a
\* non-empty spec filled, with at least one flagged byte and every store
\* inside the table
TokenizedUnderSetTable ==
    /\ lastDelim.op = "set"
    /\ Len(lastDelim.spec) > 0
    /\ ~oob
    /\ Flagged # {}
    /\ strOut.type = "sym"

\* C7: under a set delimiter table with at least one flagged byte,
\* str_symbolize yields one token per maximal run of non-delimiter bytes of
\* the original string, in order, each the hash_str of the run's bytes
\* (so leading, trailing and repeated delimiters yield no token), and never
\* more tokens than the len/2 + 1 slots allocated.
Tokenization ==
    TokenizedUnderSetTable =>
        /\ strOut.sym = [r \in 1..Len(MaximalRuns(strIn, 1, <<>>)) |->
                            hash_str(MaximalRuns(strIn, 1, <<>>)[r])]
        /\ strOut.len = Len(MaximalRuns(strIn, 1, <<>>))
        /\ ~strOut.overflow

\* The two parts of Tokenization apart, and the build with unsigned char
TokenizationUnsignedChar == charSigned \/ Tokenization

TokenizationLowDelimiter == (FirstDelim >= 128) \/ Tokenization

DelimDecodingInsideTable == ~oob

DelimDecodingFlags ==
    (lastDelim.op = "set" /\ Len(lastDelim.spec) > 0 /\ ~oob
        /\ WellFormedFrom(lastDelim.spec, 1))
       => Flagged = NamedFrom(lastDelim.spec, 1)

DelimDecodingHasDelim ==
    str_has_delim <=> (lastDelim.op = "set" /\ Len(lastDelim.spec) > 0)

====
